---- MODULE Spec2Model ----
(***************************************************************************)
(* Model of the GCP compliance scanner backend:                            *)
(*   backend/scanner/checks.py  the six checks                             *)
(*   backend/main.py            trigger_scan (POST /scan) and              *)
(*                              get_all_findings (GET /findings)           *)
(*   backend/database.py        add_findings / get_findings                *)
(* Strings are TLA+ strings; Python exceptions are the strings "Forbidden",*)
(* "GoogleCloudError" (the non-Forbidden provider errors) and "Exception"  *)
(* (anything else), "none" meaning that nothing was raised.                *)
(***************************************************************************)
EXTENDS Integers, Sequences, FiniteSets, TLC

VARIABLES
    hashOrder,     \* per process: iteration order of its sets of port strings
    store,         \* committed rows of compliance_findings
    nextId,        \* next value of the id sequence (autoincrement)
    clock,         \* the database server's now()
    faults,        \* provider / storage faults injected so far
    scans,         \* scan requests received so far
    pc,            \* per worker: position inside trigger_scan
    project_id,    \* per worker: scan_request.project_id
    checks_requested, \* per worker: scan_request.checks_to_run (Optional)
    ran,           \* per worker: names of the checks invoked, in order
    contrib,       \* per worker: what each invoked check added to all_findings
    all_findings,  \* per worker: the aggregate list
    inserted,      \* per worker: ids the scan's batch was committed under
    store_raised,  \* per worker: what add_findings raised in the scan
    response,      \* per worker: the HTTP response of the last scan
    prev,          \* the last successful scan before the current one
    query,         \* the last GET /findings request and what it returned
    overlapped,    \* per worker: the scans in flight when its scan began
    subject,       \* the input a single check is applied to
    verdict        \* what the check returned for it

vars == <<hashOrder, store, nextId, clock, faults, scans, pc, project_id,
          checks_requested, ran, contrib, all_findings, inserted,
          store_raised, response, prev, query, overlapped, subject, verdict>>

----------------------------------------------------------------------------
(* Bounds of the model.                                                     *)

MaxScans == 2
MaxFaults == 1
MaxClock == 1
MaxFailAt == 1

----------------------------------------------------------------------------
(* Python string operations used by the checks.                             *)

StartsWith(s, p) == Len(s) >= Len(p) /\ SubSeq(s, 1, Len(p)) = p

\* str.endswith
EndsWith(s, p) == Len(s) >= Len(p) /\ SubSeq(s, Len(s) - Len(p) + 1, Len(s)) = p

\* positions of the one-character string c in s
Positions(s, c) == {i \in 1..Len(s) : SubSeq(s, i, i) = c}

SetMin(S) == CHOOSE x \in S : \A y \in S : x <= y
SetMax(S) == CHOOSE x \in S : \A y \in S : x >= y

\* member.split(":", 1): one or two parts
SplitColonOnce(s) ==
    IF Positions(s, ":") = {} THEN <<s>>
    ELSE LET i == SetMin(Positions(s, ":"))
         IN <<SubSeq(s, 1, i - 1), SubSeq(s, i + 1, Len(s))>>

\* zone.split('/')[-1]
LastSegment(s) ==
    IF Positions(s, "/") = {} THEN s
    ELSE SubSeq(s, SetMax(Positions(s, "/")) + 1, Len(s))

UpperLetters == "ABCDEFGHIJKLMNOPQRSTUVWXYZ"
LowerLetters == "abcdefghijklmnopqrstuvwxyz"

LowerChar(c) ==
    IF Positions(UpperLetters, c) = {} THEN c
    ELSE LET i == CHOOSE j \in Positions(UpperLetters, c) : TRUE
         IN SubSeq(LowerLetters, i, i)

RECURSIVE Lower(_)
\* str.lower
Lower(s) == IF Len(s) = 0 THEN "" ELSE LowerChar(SubSeq(s, 1, 1)) \o Lower(SubSeq(s, 2, Len(s)))

----------------------------------------------------------------------------
(* Provider faults.  A fault says which calls of one check invocation     *)
(* raise: the client constructor (client), the resource listing (list)     *)
(* and the second listing (list2, the addresses of                         *)
(* check_unused_resources).  A listing is lazy: it raises after having     *)
(* yielded `at` resources.                                                  *)

ErrKinds == {"Forbidden", "GoogleCloudError", "Exception"}

NoErr == [kind |-> "none", at |-> 0]

NoFault == [client |-> "none", list |-> NoErr, list2 |-> NoErr]

\* the resources the loop of a check sees before the listing raises
Yielded(items, f) ==
    IF f.kind # "none" /\ f.at < Len(items) THEN SubSeq(items, 1, f.at) ELSE items

\* what the listing raises once the loop has consumed what it yielded
ListingError(f) == f.kind

ClientError(fault) == fault.client

\* a finding built without its project id
FindingWithoutProject(rtype, rid, desc, pid) ==
    [resource_type |-> rtype, resource_id |-> rid,
     finding_description |-> desc, status |-> "NonCompliant",
     gcp_project_id |-> ""]

Finding(rtype, rid, desc, pid) ==
    [resource_type |-> rtype, resource_id |-> rid,
     finding_description |-> desc, status |-> "NonCompliant",
     gcp_project_id |-> pid]

\* a check's return: its list, or the exception that escapes it
Returned(findings) == [findings |-> findings, raised |-> "none"]
Escaped(kind) == [findings |-> <<>>, raised |-> kind]

\* outer except clauses that return what the loop had appended
OuterExceptKeepingFindings(kind, findings) == Returned(findings)

\* outer except clauses whose GoogleCloudError clause returns `findings`
OuterExceptKeepingOnApiError(kind, findings) ==
    IF kind \in {"none", "GoogleCloudError"} THEN Returned(findings)
    ELSE Returned(<<>>)

\* the three outer except clauses of a check (Forbidden, GoogleCloudError,
\* Exception), each `return []`
OuterExcept(kind, findings) ==
    IF kind = "none" THEN Returned(findings) ELSE Returned(<<>>)

----------------------------------------------------------------------------
(* check_public_buckets                                                     *)

PublicRoles == {"roles/storage.objectViewer", "roles/storage.legacyObjectReader"}

\* a test that forgets allAuthenticatedUsers
PublicBindingAllUsersOnly(binding) ==
    binding.role \in PublicRoles /\ "allUsers" \in binding.members

PublicBinding(binding) ==
    /\ binding.role \in PublicRoles
    /\ ("allUsers" \in binding.members \/ "allAuthenticatedUsers" \in binding.members)

\* one iteration of the loop over buckets: the findings it appends
PublicBucketStep(pid, bucket) ==
    IF bucket.policy_err # "none" THEN <<>>      \* inner except clauses: skip
    ELSE IF \E i \in DOMAIN bucket.bindings : PublicBinding(bucket.bindings[i])
    THEN <<Finding("Bucket", bucket.name,
                   "Bucket is publicly accessible via 'allUsers' or 'allAuthenticatedUsers'.",
                   pid)>>
    ELSE <<>>

RECURSIVE PublicBucketsLoop(_, _)
PublicBucketsLoop(pid, buckets) ==
    IF buckets = <<>> THEN <<>>
    ELSE PublicBucketStep(pid, Head(buckets)) \o PublicBucketsLoop(pid, Tail(buckets))

check_public_buckets(pid, env, fault) ==
    IF ClientError(fault) # "none" THEN OuterExcept(ClientError(fault), <<>>)
    ELSE OuterExcept(ListingError(fault.list),
                     PublicBucketsLoop(pid, Yielded(env.buckets, fault.list)))

----------------------------------------------------------------------------
(* check_firewall_rules                                                     *)

ports_to_check == {"22", "3389"}

SeqToSet(s) == {s[i] : i \in DOMAIN s}

RECURSIVE JoinInOrder(_, _)
\* ', '.join(S) for a set S of strings iterated in the order `order`
JoinInOrder(S, order) ==
    IF order = <<>> THEN ""
    ELSE LET rest == JoinInOrder(S, Tail(order))
         IN IF Head(order) \notin S THEN rest
            ELSE IF rest = "" THEN Head(order)
            ELSE Head(order) \o ", " \o rest

AllowedMatches(allowed) ==
    /\ Lower(allowed.ip_protocol) \in {"tcp", "udp"}
    /\ ports_to_check \cap SeqToSet(allowed.ports) # {}

\* the loop over rule.allowed, left by `break` at the first matching entry
FirewallRuleStep(pid, rule, order) ==
    IF /\ rule.direction = "INGRESS"
       /\ ~rule.disabled
       /\ "0.0.0.0/0" \in rule.source_ranges
       /\ \E i \in DOMAIN rule.allowed : AllowedMatches(rule.allowed[i])
    THEN LET i == SetMin({j \in DOMAIN rule.allowed : AllowedMatches(rule.allowed[j])})
             hit == ports_to_check \cap SeqToSet(rule.allowed[i].ports)
         IN <<Finding("FirewallRule", rule.name,
                      "Rule allows ingress from 0.0.0.0/0 on sensitive ports: "
                          \o JoinInOrder(hit, order) \o ".",
                      pid)>>
    ELSE <<>>

RECURSIVE FirewallLoop(_, _, _)
FirewallLoop(pid, rules, order) ==
    IF rules = <<>> THEN <<>>
    ELSE FirewallRuleStep(pid, Head(rules), order)
             \o FirewallLoop(pid, Tail(rules), order)

check_firewall_rules(pid, env, fault) ==
    IF ClientError(fault) # "none" THEN OuterExcept(ClientError(fault), <<>>)
    ELSE OuterExcept(ListingError(fault.list),
                     FirewallLoop(pid, Yielded(env.firewalls, fault.list),
                                  env.hash_order))

----------------------------------------------------------------------------
(* check_default_sa_usage                                                   *)

default_sa_suffix == "-compute@developer.gserviceaccount.com"

UsesDefaultSa(sa) == sa.email # "" /\ EndsWith(sa.email, default_sa_suffix)

InstanceStep(pid, zone, instance) ==
    IF \E i \in DOMAIN instance.service_accounts :
           UsesDefaultSa(instance.service_accounts[i])
    THEN LET i == SetMin({j \in DOMAIN instance.service_accounts :
                              UsesDefaultSa(instance.service_accounts[j])})
             sa == instance.service_accounts[i]
         IN <<Finding("Instance", LastSegment(zone) \o "/" \o instance.name,
                      "Instance uses the default Compute Engine service account ("
                          \o sa.email
                          \o "). Consider using a dedicated service account with least privilege.",
                      pid)>>
    ELSE <<>>

RECURSIVE InstancesLoop(_, _, _)
InstancesLoop(pid, zone, instances) ==
    IF instances = <<>> THEN <<>>
    ELSE InstanceStep(pid, zone, Head(instances))
             \o InstancesLoop(pid, zone, Tail(instances))

RECURSIVE DefaultSaLoop(_, _)
\* agg_result yields (zone, response) pairs
DefaultSaLoop(pid, agg) ==
    IF agg = <<>> THEN <<>>
    ELSE InstancesLoop(pid, Head(agg)[1], Head(agg)[2].instances)
             \o DefaultSaLoop(pid, Tail(agg))

check_default_sa_usage(pid, env, fault) ==
    IF ClientError(fault) # "none" THEN OuterExcept(ClientError(fault), <<>>)
    ELSE OuterExcept(ListingError(fault.list),
                     DefaultSaLoop(pid, Yielded(env.instances, fault.list)))

----------------------------------------------------------------------------
(* check_unused_resources                                                   *)

DiskStep(pid, zone, disk) ==
    IF disk.users = <<>>
    THEN <<Finding("Disk", LastSegment(zone) \o "/" \o disk.name,
                   "Persistent disk is not attached to any instance.", pid)>>
    ELSE <<>>

RECURSIVE DisksLoop(_, _, _)
DisksLoop(pid, zone, disks) ==
    IF disks = <<>> THEN <<>>
    ELSE DiskStep(pid, zone, Head(disks)) \o DisksLoop(pid, zone, Tail(disks))

RECURSIVE AggDisksLoop(_, _)
AggDisksLoop(pid, agg) ==
    IF agg = <<>> THEN <<>>
    ELSE DisksLoop(pid, Head(agg)[1], Head(agg)[2].disks) \o AggDisksLoop(pid, Tail(agg))

AddressStep(pid, region, address) ==
    IF /\ address.address_type = "EXTERNAL"
       /\ address.status = "RESERVED"
       /\ address.users = <<>>
    THEN <<Finding("Address", LastSegment(region) \o "/" \o address.name,
                   "Static external IP address is reserved but not associated with any resource.",
                   pid)>>
    ELSE <<>>

RECURSIVE AddressesLoop(_, _, _)
AddressesLoop(pid, region, addresses) ==
    IF addresses = <<>> THEN <<>>
    ELSE AddressStep(pid, region, Head(addresses))
             \o AddressesLoop(pid, region, Tail(addresses))

RECURSIVE AggAddressesLoop(_, _)
AggAddressesLoop(pid, agg) ==
    IF agg = <<>> THEN <<>>
    ELSE AddressesLoop(pid, Head(agg)[1], Head(agg)[2].addresses)
             \o AggAddressesLoop(pid, Tail(agg))

\* the first try block: its except clauses only log, so what was appended
\* before the listing raised stays in `findings`
UnusedDisks(pid, env, fault) == AggDisksLoop(pid, Yielded(env.disks, fault.list))

\* the second try block, the same way
UnusedAddresses(pid, env, fault) ==
    AggAddressesLoop(pid, Yielded(env.addresses, fault.list2))

\* both listings under one try whose except clauses return []
UnusedResourcesOneTry(pid, env, fault) ==
    IF ClientError(fault) # "none" THEN Escaped(ClientError(fault))
    ELSE IF fault.list.kind # "none" \/ fault.list2.kind # "none"
    THEN Returned(<<>>)
    ELSE Returned(AggDisksLoop(pid, env.disks) \o AggAddressesLoop(pid, env.addresses))

\* the two clients are constructed outside any try
check_unused_resources(pid, env, fault) ==
    IF ClientError(fault) # "none" THEN Escaped(ClientError(fault))
    ELSE Returned(UnusedDisks(pid, env, fault) \o UnusedAddresses(pid, env, fault))

----------------------------------------------------------------------------
(* check_bucket_logging                                                     *)

BucketLoggingStep(pid, bucket) ==
    IF bucket.reload_err # "none" THEN <<>>      \* inner except clauses: skip
    ELSE IF ~bucket.logging
    THEN <<Finding("Bucket", bucket.name,
                   "Bucket does not have access logging enabled.", pid)>>
    ELSE <<>>

RECURSIVE BucketLoggingLoop(_, _)
BucketLoggingLoop(pid, buckets) ==
    IF buckets = <<>> THEN <<>>
    ELSE BucketLoggingStep(pid, Head(buckets)) \o BucketLoggingLoop(pid, Tail(buckets))

check_bucket_logging(pid, env, fault) ==
    IF ClientError(fault) # "none" THEN OuterExcept(ClientError(fault), <<>>)
    ELSE OuterExcept(ListingError(fault.list),
                     BucketLoggingLoop(pid, Yielded(env.buckets, fault.list)))

----------------------------------------------------------------------------
(* check_iam_bindings                                                       *)

primitive_roles == {"roles/owner", "roles/editor", "roles/viewer"}

Digits == "0123456789"

RECURSIVE LeadingDigits(_)
\* how many characters \d+ can take at the start of s
LeadingDigits(s) ==
    IF Len(s) = 0 \/ Positions(Digits, SubSeq(s, 1, 1)) = {} THEN 0
    ELSE 1 + LeadingDigits(SubSeq(s, 2, Len(s)))

\* the literal alternatives of default_sa_pattern's group
DefaultSaLiterals ==
    {"service-", "gcp-sa-", "gae-api-proxy@", "firebase-", "cloud-ml-service@",
     "container-engine-robot@", "dataproc-agent@", "sourcerepo-service-agent@",
     "cloud-filer-agent@", "cloud-tasks-producer@",
     "cloud-tasks-appengine-requester@", "cloudscheduler-service-agent@",
     "endpoints-service-agent@", "remotebuildexecution-agent@",
     "secretmanager-service-agent@", "stackdriver-service-agent@",
     "storage-transfer-service-agent@", "websecurityscanner-service-agent@"}

\* the alternatives \d+<literal> of the group
DefaultSaNumbered == {"-compute@", "@cloudbuild.gserviceaccount.com"}

\* lengths of the prefixes of s that the group of default_sa_pattern matches
DefaultSaGroupEnds(s) ==
    {Len(p) : p \in {q \in DefaultSaLiterals : StartsWith(s, q)}}
    \cup {LeadingDigits(s) + Len(p) :
             p \in {q \in DefaultSaNumbered :
                       /\ LeadingDigits(s) >= 1
                       /\ StartsWith(SubSeq(s, LeadingDigits(s) + 1, Len(s)), q)}}

GServiceAccountSuffix == ".gserviceaccount.com"

\* default_sa_pattern.match(s): ^(group).*\.gserviceaccount\.com$
default_sa_pattern(s) ==
    /\ EndsWith(s, GServiceAccountSuffix)
    /\ \E e \in DefaultSaGroupEnds(s) : e + Len(GServiceAccountSuffix) <= Len(s)

IamSuffix == ".iam.gserviceaccount.com"

\* google_managed_sa_pattern.match(s): ^service-\d+@gcp-sa-.*\.iam\.gserviceaccount\.com$
google_managed_sa_pattern(s) ==
    /\ StartsWith(s, "service-")
    /\ LET rest == SubSeq(s, Len("service-") + 1, Len(s))
           n == LeadingDigits(rest)
       IN /\ n >= 1
          /\ StartsWith(SubSeq(rest, n + 1, Len(rest)), "@gcp-sa-")
          /\ Len("service-") + n + Len("@gcp-sa-") + Len(IamSuffix) <= Len(s)
    /\ EndsWith(s, IamSuffix)

\* one member of a primitive-role binding: the finding it appends, or the
\* ValueError of unpacking member.split(":", 1) into two names
IamMemberStep(pid, role, member) ==
    LET parts == SplitColonOnce(member) IN
    IF Len(parts) # 2 THEN Escaped("Exception")
    ELSE LET member_type == parts[1]
             member_id == parts[2]
             is_user == member_type = "user"
             is_non_default_sa ==
                 /\ member_type = "serviceAccount"
                 /\ ~default_sa_pattern(member_id)
                 /\ ~google_managed_sa_pattern(member_id)
         IN IF is_user \/ is_non_default_sa
            THEN Returned(<<Finding("IAMBinding", member,
                                    "Primitive role '" \o role
                                        \o "' assigned directly to '"
                                        \o member_type \o "'.",
                                    pid)>>)
            ELSE Returned(<<>>)

\* r, then (unless r raised) what `more` does
Then(r, more) ==
    IF r.raised # "none" THEN r
    ELSE [findings |-> r.findings \o more.findings, raised |-> more.raised]

RECURSIVE IamMembersLoop(_, _, _)
IamMembersLoop(pid, role, members) ==
    IF members = <<>> THEN Returned(<<>>)
    ELSE Then(IamMemberStep(pid, role, Head(members)),
              IamMembersLoop(pid, role, Tail(members)))

RECURSIVE IamBindingsLoop(_, _)
IamBindingsLoop(pid, bindings) ==
    IF bindings = <<>> THEN Returned(<<>>)
    ELSE Then(IF Head(bindings).role \in primitive_roles
              THEN IamMembersLoop(pid, Head(bindings).role, Head(bindings).members)
              ELSE Returned(<<>>),
              IamBindingsLoop(pid, Tail(bindings)))

\* get_iam_policy is one call: it raises or returns the whole policy
check_iam_bindings(pid, env, fault) ==
    IF ClientError(fault) # "none" THEN OuterExcept(ClientError(fault), <<>>)
    ELSE IF ListingError(fault.list) # "none"
    THEN OuterExcept(ListingError(fault.list), <<>>)
    ELSE LET r == IamBindingsLoop(pid, env.policy_bindings)
         IN OuterExcept(r.raised, r.findings)

----------------------------------------------------------------------------
(* database.py: the compliance_findings table                               *)

\* the mapped attributes of ComplianceFinding
Columns == {"id", "scan_timestamp", "gcp_project_id", "resource_type",
            "resource_id", "finding_description", "status"}

\* the nullable=False columns that have no default
Required == {"gcp_project_id", "resource_type", "resource_id", "finding_description"}

\* ComplianceFinding(**finding) raises TypeError on an unknown keyword
Constructible(finding) == DOMAIN finding \subseteq Columns

\* the INSERT of one object: id from the sequence, scan_timestamp from the
\* server default now(), status from its default when absent
InsertRow(finding, id, now) ==
    [id |-> id, scan_timestamp |-> now,
     gcp_project_id |-> finding.gcp_project_id,
     resource_type |-> finding.resource_type,
     resource_id |-> finding.resource_id,
     finding_description |-> finding.finding_description,
     status |-> IF "status" \in DOMAIN finding THEN finding.status ELSE "NonCompliant"]

\* rows the transaction holds after the INSERT of the first k objects
Flushed(findings, k, nid, now) ==
    {InsertRow(findings[i], nid + i - 1, now) : i \in 1..k}

\* how many INSERTs succeed: all, unless an object misses a NOT NULL column
\* or the storage fails after `fail.after` of them
InsertsDone(findings, fail) ==
    LET bad == {i \in DOMAIN findings : ~(Required \subseteq DOMAIN findings[i])}
        stop == (IF bad = {} THEN {} ELSE {SetMin(bad) - 1})
                \cup (IF fail.fails THEN {fail.after} ELSE {})
    IN IF stop = {} THEN Len(findings)
       ELSE IF SetMin(stop) < Len(findings) THEN SetMin(stop) ELSE Len(findings)

SameViolation(r, q) ==
    /\ r.gcp_project_id = q.gcp_project_id
    /\ r.resource_type = q.resource_type
    /\ r.resource_id = q.resource_id
    /\ r.finding_description = q.finding_description

\* a commit that drops the rows whose violation is already recorded
CommitDeduplicating(rows, tx) ==
    rows \cup {t \in tx : ~\E r \in rows : SameViolation(r, t)}

\* a commit that replaces the table's rows
CommitReplacing(rows, tx) == tx

\* db.commit(): the transaction's rows become part of the table
Commit(rows, tx) == rows \cup tx

\* a rollback that leaves the rows already inserted in the table
RollbackKeepingInserts(rows, tx) == rows \cup tx

\* a rollback that empties the table
RollbackDroppingAll(rows, tx) == {}

\* db.rollback(): the transaction's rows are dropped
Rollback(rows, tx) == rows

NoStorageFailure == [fails |-> FALSE, after |-> 0]

\* add_findings(db, findings): the table and the sequence afterwards, the
\* exception re-raised ("none" when it returns) and the ids committed
add_findings(rows, nid, now, findings, fail) ==
    IF findings = <<>>
    THEN [rows |-> rows, nextId |-> nid, raised |-> "none", ids |-> {}]
    ELSE IF \E i \in DOMAIN findings : ~Constructible(findings[i])
    THEN [rows |-> Rollback(rows, {}), nextId |-> nid, raised |-> "Exception", ids |-> {}]
    ELSE LET k == InsertsDone(findings, fail)
             tx == Flushed(findings, k, nid, now)
             failed == fail.fails \/ k < Len(findings)
         IN IF failed
            THEN [rows |-> Rollback(rows, tx), nextId |-> nid + k,
                  raised |-> "Exception", ids |-> {}]
            ELSE [rows |-> Commit(rows, tx), nextId |-> nid + k,
                  raised |-> "none", ids |-> {r.id : r \in tx}]

\* ORDER BY scan_timestamp, id
OrderedBeforeAscending(r, q) ==
    \/ r.scan_timestamp < q.scan_timestamp
    \/ (r.scan_timestamp = q.scan_timestamp /\ r.id < q.id)

\* ORDER BY scan_timestamp DESC, id
OrderedBefore(r, q) ==
    \/ r.scan_timestamp > q.scan_timestamp
    \/ (r.scan_timestamp = q.scan_timestamp /\ r.id < q.id)

RECURSIVE OrderBy(_)
OrderBy(rows) ==
    IF rows = {} THEN <<>>
    ELSE LET first == CHOOSE r \in rows : \A q \in rows \ {r} : OrderedBefore(r, q)
         IN <<first>> \o OrderBy(rows \ {first})

\* an Optional[str]
None == [some |-> FALSE, val |-> ""]
Some(v) == [some |-> TRUE, val |-> v]

\* an absent Optional[List[str]]
NoList == [some |-> FALSE, val |-> <<>>]

\* Python truthiness of an Optional[str]
Truthy(opt) == opt.some /\ opt.val # ""

\* get_findings(db, project_id)
get_findings(rows, filter) ==
    OrderBy(IF Truthy(filter)
            THEN {r \in rows : r.gcp_project_id = filter.val}
            ELSE rows)

----------------------------------------------------------------------------
(* The provider state the checks read: two projects.  The provider rejects *)
(* the empty project id: every listing for it raises.                      *)

Bucket(name, policy_err, bindings, reload_err, logging) ==
    [name |-> name, policy_err |-> policy_err, bindings |-> bindings,
     reload_err |-> reload_err, logging |-> logging]

FirewallRule(name, direction, disabled, source_ranges, allowed) ==
    [name |-> name, direction |-> direction, disabled |-> disabled,
     source_ranges |-> source_ranges, allowed |-> allowed]

ProjectOne ==
    [buckets |-> <<
        Bucket("public-assets", "none",
               <<[role |-> "roles/storage.objectViewer", members |-> {"allUsers"}]>>,
               "none", FALSE),
        Bucket("private-data", "none",
               <<[role |-> "roles/storage.objectViewer",
                  members |-> {"user:alice@example.com"}]>>,
               "none", TRUE)>>,
     firewalls |-> <<
        FirewallRule("allow-admin", "INGRESS", FALSE, {"0.0.0.0/0"},
                     <<[ip_protocol |-> "tcp", ports |-> <<"22", "80", "3389">>]>>)>>,
     instances |-> <<
        <<"zones/us-central1-a",
          [instances |-> <<
              [name |-> "vm-1",
               service_accounts |->
                   <<[email |-> "123456789-compute@developer.gserviceaccount.com"]>>]>>]>>>>,
     disks |-> <<
        <<"zones/us-central1-a",
          [disks |-> <<[name |-> "disk-1", users |-> <<>>]>>]>>>>,
     addresses |-> <<
        <<"regions/us-central1",
          [addresses |-> <<[name |-> "ip-1", address_type |-> "EXTERNAL",
                            status |-> "RESERVED", users |-> <<>>]>>]>>>>,
     policy_bindings |-> <<
        [role |-> "roles/owner",
         members |-> <<"user:bob@example.com",
                       "serviceAccount:123-compute@developer.gserviceaccount.com">>]>>]

ProjectTwo ==
    [buckets |-> <<
        Bucket("locked", "Forbidden", <<>>, "GoogleCloudError", FALSE),
        Bucket("open-logs", "none",
               <<[role |-> "roles/storage.legacyObjectReader",
                  members |-> {"allAuthenticatedUsers"}]>>,
               "none", FALSE)>>,
     firewalls |-> <<
        FirewallRule("old-rdp", "INGRESS", TRUE, {"0.0.0.0/0"},
                     <<[ip_protocol |-> "tcp", ports |-> <<"3389">>]>>),
        FirewallRule("rdp-udp", "INGRESS", FALSE, {"0.0.0.0/0"},
                     <<[ip_protocol |-> "UDP", ports |-> <<"3389">>]>>)>>,
     instances |-> <<
        <<"zones/europe-west1-b",
          [instances |-> <<
              [name |-> "vm-2",
               service_accounts |->
                   <<[email |-> "custom-sa@project.iam.gserviceaccount.com"]>>]>>]>>>>,
     disks |-> <<
        <<"zones/europe-west1-b",
          [disks |-> <<[name |-> "disk-2", users |-> <<"vm-2">>],
                       [name |-> "disk-3", users |-> <<>>]>>]>>>>,
     addresses |-> <<
        <<"regions/europe-west1",
          [addresses |-> <<[name |-> "ip-2", address_type |-> "EXTERNAL",
                            status |-> "IN_USE", users |-> <<"vm-2">>]>>]>>>>,
     policy_bindings |-> <<
        [role |-> "roles/viewer",
         members |-> <<"user:carol@example.com", "allAuthenticatedUsers">>]>>]

NoResources ==
    [buckets |-> <<>>, firewalls |-> <<>>, instances |-> <<>>, disks |-> <<>>,
     addresses |-> <<>>, policy_bindings |-> <<>>]

ProjectIds == {"", "proj-one", "proj-two"}

Resources(pid) ==
    CASE pid = "proj-one" -> ProjectOne
      [] pid = "proj-two" -> ProjectTwo
      [] OTHER -> NoResources

HashOrders == {<<"22", "3389">>, <<"3389", "22">>}

\* what a check run by a process reads: the project's resources, and the
\* order in which the process iterates a set of port strings
World(pid, order) == Resources(pid) @@ [hash_order |-> order]

\* what the provider answers for the empty project id
Rejected ==
    [client |-> "none",
     list |-> [kind |-> "GoogleCloudError", at |-> 0],
     list2 |-> [kind |-> "GoogleCloudError", at |-> 0]]

----------------------------------------------------------------------------
(* main.py: trigger_scan                                                    *)

\* check_functions, in the dict's order
CheckNames == <<"public_buckets", "firewall_rules", "iam_bindings",
                "default_sa_usage", "unused_resources", "bucket_logging">>

Registry == SeqToSet(CheckNames)

\* check_functions[name](project_id)
CheckFn(name, pid, env, fault) ==
    CASE name = "public_buckets" -> check_public_buckets(pid, env, fault)
      [] name = "firewall_rules" -> check_firewall_rules(pid, env, fault)
      [] name = "iam_bindings" -> check_iam_bindings(pid, env, fault)
      [] name = "default_sa_usage" -> check_default_sa_usage(pid, env, fault)
      [] name = "unused_resources" -> check_unused_resources(pid, env, fault)
      [] name = "bucket_logging" -> check_bucket_logging(pid, env, fault)

\* scan_request.checks_to_run or []
OrEmpty(opt) == IF opt.some /\ opt.val # <<>> THEN opt.val ELSE <<>>

\* run_all that forgets the "all" sentinel
run_all_without_sentinel(requested) == requested = <<>>

run_all(requested) == requested = <<>> \/ "all" \in SeqToSet(requested)

\* the condition of the loop body: run_all or check_name in checks_requested
Selected(name, opt) ==
    run_all(OrEmpty(opt)) \/ name \in SeqToSet(OrEmpty(opt))

\* the inner try of the loop: the findings a check adds to all_findings
Extend(result) == IF result.raised = "none" THEN result.findings ELSE <<>>

ScanResponse202(pid, findings) ==
    [status_code |-> 202, status |-> "success",
     message |-> "Scan initiated and completed for project " \o pid \o ".",
     findings_count |-> Len(findings), detail |-> ""]

\* the HTTPException of the outer except clause
ScanResponse500(pid) ==
    [status_code |-> 500, status |-> "", message |-> "", findings_count |-> 0,
     detail |-> "An error occurred during the scan for project " \o pid \o ": "]

\* a handler that answers 202 whatever add_findings did
ScanOutcomeAlwaysAccepted(raised, pid, findings) == ScanResponse202(pid, findings)

\* the outer try of trigger_scan around add_findings: the return of the
\* ScanResponse, or the except clause when add_findings raised
ScanOutcome(raised, pid, findings) ==
    IF raised = "none" THEN ScanResponse202(pid, findings) ELSE ScanResponse500(pid)

NoResponse ==
    [status_code |-> 0, status |-> "", message |-> "", findings_count |-> 0,
     detail |-> ""]

\* GET /findings: the response model built from one row
IsoFormat(ts) == "1970-01-01T00:00:0" \o ToString(ts) \o "+00:00"

FindingResponse(f) ==
    [id |-> f.id, scan_timestamp |-> IsoFormat(f.scan_timestamp),
     gcp_project_id |-> f.gcp_project_id, resource_type |-> f.resource_type,
     resource_id |-> f.resource_id,
     finding_description |-> f.finding_description, status |-> f.status]

----------------------------------------------------------------------------
(* The requests and faults the model draws.                                 *)

Workers == {"w1"}

\* the server processes that share the database
Processes == {"w1", "w2"}

Requests ==
    {NoList,
     Some(<<>>),
     Some(<<"all", "bucket_logging">>),
     Some(<<"public_buckets", "nonexistent_check">>),
     Some(<<"iam_bindings", "unused_resources", "iam_bindings">>),
     Some(<<"nonexistent_check">>)}

Filters == {None, Some(""), Some("proj-one")}

ListAts(name) == IF name = "iam_bindings" THEN {0} ELSE 0..MaxFailAt

\* the faults one invocation of a check can meet
SiteFaults(name) ==
    {[NoFault EXCEPT !.client = "Exception"]}
    \cup {[NoFault EXCEPT !.list = [kind |-> k, at |-> 0]] : k \in ErrKinds}
    \cup {[NoFault EXCEPT !.list = [kind |-> "GoogleCloudError", at |-> a]] :
             a \in ListAts(name)}
    \cup (IF name = "unused_resources"
          THEN {[NoFault EXCEPT !.list2 = [kind |-> k, at |-> a]] :
                   k \in {"Forbidden", "GoogleCloudError"}, a \in 0..MaxFailAt}
          ELSE {})

\* check_functions[name](project_id) for every input the model draws
CheckTable ==
    [pid \in ProjectIds, order \in HashOrders, name \in Registry |->
        [fault \in {NoFault, Rejected} \cup SiteFaults(name) |->
            CheckFn(name, pid, World(pid, order), fault)]]

NoFaults == [n \in Registry |-> NoFault]

RECURSIVE FaultVectors(_, _)
\* the assignments of faults to the checks in `names` with at most k faults
FaultVectors(names, k) ==
    IF k = 0 THEN {NoFaults}
    ELSE LET less == FaultVectors(names, k - 1)
         IN less \cup {[v EXCEPT ![n] = f] :
                          v \in less, <<n, f>> \in
                              UNION {{<<m, g>> : g \in SiteFaults(m)} : m \in names}}

FaultCount(fv) == Cardinality({n \in Registry : fv[n] # NoFault})

StorageFailures(findings) ==
    {NoStorageFailure}
    \cup (IF faults < MaxFaults
          THEN {[fails |-> TRUE, after |-> k] :
                   k \in {j \in 0..Len(findings) : j <= MaxFailAt \/ j = Len(findings)}}
          ELSE {})

NoPrev == [valid |-> FALSE, project_id |-> "", all_findings |-> <<>>, inserted |-> {}]

NoQuery == [asked |-> FALSE, filter |-> None, status_code |-> 0,
            rows |-> <<>>, body |-> <<>>]

----------------------------------------------------------------------------
(* The state machine.                                                       *)

NoSubject == [check |-> "none"]

NoVerdict == [check |-> "none"]

\* the processes after startup: an empty table and no request served; the
\* processes in `serving` have drawn their string hash seed
ServerInit(serving) ==
    /\ hashOrder \in {h \in [Processes -> HashOrders] :
                         \A w \in Processes \ serving : h[w] = <<"22", "3389">>}
    /\ store = {}
    /\ nextId = 1
    /\ clock = 0
    /\ faults = 0
    /\ scans = 0
    /\ pc = [w \in Processes |-> "idle"]
    /\ project_id = [w \in Processes |-> ""]
    /\ checks_requested = [w \in Processes |-> NoList]
    /\ ran = [w \in Processes |-> <<>>]
    /\ contrib = [w \in Processes |-> <<>>]
    /\ all_findings = [w \in Processes |-> <<>>]
    /\ inserted = [w \in Processes |-> {}]
    /\ store_raised = [w \in Processes |-> "none"]
    /\ response = [w \in Processes |-> NoResponse]
    /\ prev = NoPrev
    /\ query = NoQuery
    /\ overlapped = [w \in Processes |-> {}]

Init ==
    /\ ServerInit(Workers)
    /\ subject = NoSubject
    /\ verdict = NoVerdict

RECURSIVE CheckLoopNoInnerTry(_, _, _, _, _)
\* the loop without its inner try: the first exception to escape a check
\* ends it
CheckLoopNoInnerTry(i, pid, order, opt, fv) ==
    IF i > Len(CheckNames) THEN <<>>
    ELSE LET name == CheckNames[i]
             fault == IF pid = "" THEN Rejected ELSE fv[name]
             result == CheckTable[pid, order, name][fault]
         IN IF ~Selected(name, opt)
            THEN CheckLoopNoInnerTry(i + 1, pid, order, opt, fv)
            ELSE IF result.raised # "none" THEN <<>>
            ELSE <<[name |-> name, fault |-> fault, raised |-> result.raised,
                    findings |-> result.findings]>>
                 \o CheckLoopNoInnerTry(i + 1, pid, order, opt, fv)

RECURSIVE CheckLoop(_, _, _, _, _)
\* the loop over check_functions.items() from entry i on: for every entry
\* that is selected, the check invoked and what the inner try made of it
CheckLoop(i, pid, order, opt, fv) ==
    IF i > Len(CheckNames) THEN <<>>
    ELSE LET name == CheckNames[i]
             fault == IF pid = "" THEN Rejected ELSE fv[name]
             result == CheckTable[pid, order, name][fault]
         IN (IF Selected(name, opt)
             THEN <<[name |-> name, fault |-> fault, raised |-> result.raised,
                     findings |-> Extend(result)]>>
             ELSE <<>>)
            \o CheckLoop(i + 1, pid, order, opt, fv)

\* all_findings assigned, not extended, by each check
FlattenOverwriting(entries) ==
    IF entries = <<>> THEN <<>> ELSE entries[Len(entries)].findings

RECURSIVE Flatten(_)
\* all_findings after the loop: each check's list, extended in turn
Flatten(entries) ==
    IF entries = <<>> THEN <<>>
    ELSE Head(entries).findings \o Flatten(Tail(entries))

\* POST /scan: lines 114-146 of trigger_scan, the checks
TriggerScan(w) ==
    /\ pc[w] = "idle"
    /\ scans < MaxScans
    /\ \E pid \in ProjectIds, req \in Requests :
       \E fv \in FaultVectors({n \in Registry : pid # "" /\ Selected(n, req)},
                              MaxFaults - faults) :
          LET entries == CheckLoop(1, pid, hashOrder[w], req, fv)
          IN /\ project_id' = [project_id EXCEPT ![w] = pid]
             /\ checks_requested' = [checks_requested EXCEPT ![w] = req]
             /\ contrib' = [contrib EXCEPT ![w] = entries]
             /\ ran' = [ran EXCEPT ![w] = [i \in DOMAIN entries |-> entries[i].name]]
             /\ all_findings' = [all_findings EXCEPT ![w] = Flatten(entries)]
             /\ faults' = faults + FaultCount(fv)
    /\ scans' = scans + 1
    /\ pc' = [pc EXCEPT ![w] = "store"]
    /\ inserted' = [inserted EXCEPT ![w] = {}]
    /\ store_raised' = [store_raised EXCEPT ![w] = "none"]
    /\ response' = [response EXCEPT ![w] = NoResponse]
    /\ prev' = IF response[w].status_code = 202
               THEN [valid |-> TRUE, project_id |-> project_id[w],
                     all_findings |-> all_findings[w], inserted |-> inserted[w]]
               ELSE prev
    /\ query' = NoQuery
    /\ overlapped' = [overlapped EXCEPT ![w] = {v \in Processes \ {w} : pc[v] = "store"}]
    /\ UNCHANGED <<hashOrder, store, nextId, clock, subject, verdict>>

\* lines 148-168 of trigger_scan: store the aggregate list and answer
StoreFindings(w) ==
    /\ pc[w] = "store"
    /\ \E now \in {t \in {clock, clock + 1} : t <= MaxClock},
          fail \in StorageFailures(all_findings[w]) :
          LET r == IF all_findings[w] # <<>>
                   THEN add_findings(store, nextId, now, all_findings[w], fail)
                   ELSE [rows |-> store, nextId |-> nextId, raised |-> "none",
                         ids |-> {}]
          IN /\ all_findings[w] = <<>> => (fail = NoStorageFailure /\ now = clock)
             /\ store' = r.rows
             /\ nextId' = r.nextId
             /\ clock' = now
             /\ faults' = faults + (IF fail.fails THEN 1 ELSE 0)
             /\ inserted' = [inserted EXCEPT ![w] = r.ids]
             /\ store_raised' = [store_raised EXCEPT ![w] = r.raised]
             /\ response' = [response EXCEPT ![w] =
                                ScanOutcome(r.raised, project_id[w], all_findings[w])]
    /\ pc' = [pc EXCEPT ![w] = "idle"]
    /\ UNCHANGED <<hashOrder, scans, project_id, checks_requested, ran,
                   contrib, all_findings, prev, query, overlapped, subject,
                   verdict>>

MapSeq(Op(_), s) == [i \in DOMAIN s |-> Op(s[i])]

\* GET /findings, served between two scans of the worker; the except
\* clause answers 500 when the query raises
GetAllFindings ==
    /\ \A w \in Workers : pc[w] = "idle"
    /\ \E filter \in Filters, raises \in {r \in BOOLEAN : r => faults < MaxFaults} :
          LET rows == get_findings(store, filter)
          IN /\ query' = IF raises
                         THEN [asked |-> TRUE, filter |-> filter, status_code |-> 500,
                               rows |-> <<>>, body |-> <<>>]
                         ELSE [asked |-> TRUE, filter |-> filter, status_code |-> 200,
                               rows |-> rows, body |-> MapSeq(FindingResponse, rows)]
             /\ faults' = faults + (IF raises THEN 1 ELSE 0)
    /\ UNCHANGED <<hashOrder, store, nextId, clock, scans, pc,
                   project_id, checks_requested, ran, contrib,
                   all_findings, inserted, store_raised, response, prev,
                   overlapped, subject, verdict>>

Next ==
    \/ \E w \in Workers : TriggerScan(w)
    \/ \E w \in Workers : StoreFindings(w)
    \/ GetAllFindings

Spec == Init /\ [][Next]_vars

\* two server processes handling scan requests against the same database
ConcInit ==
    /\ ServerInit(Processes)
    /\ subject = NoSubject
    /\ verdict = NoVerdict

ConcNext ==
    \/ \E w \in Processes : TriggerScan(w)
    \/ \E w \in Processes : StoreFindings(w)

ConcSpec == ConcInit /\ [][ConcNext]_vars

----------------------------------------------------------------------------
(* Properties.                                                              *)

\* worker w has run the checks of a scan
Scanned(w) == pc[w] = "store" \/ response[w] # NoResponse

\* worker w has answered a scan
Answered(w) == pc[w] = "idle" /\ response[w] # NoResponse

NoDuplicates(s) == \A i, j \in DOMAIN s : i # j => s[i] # s[j]

\* the checks a request asks for, read off the request alone
Asked(opt) ==
    IF ~opt.some \/ Len(opt.val) = 0 \/ (\E i \in DOMAIN opt.val : opt.val[i] = "all")
    THEN Registry
    ELSE {opt.val[i] : i \in DOMAIN opt.val} \cap Registry

\* C1: a request whose checks_to_run is null, empty or contains "all" runs
\* all six registered checks; any other request runs exactly the requested
\* names that are registered, each once; unknown names raise no error: a
\* scan is only ever answered with an error after a non-empty batch was
\* handed to the store and the store raised.
C1_CheckSelection ==
    \A w \in Workers :
        Scanned(w) =>
            /\ SeqToSet(ran[w]) = Asked(checks_requested[w])
            /\ NoDuplicates(ran[w])
            /\ Answered(w) =>
                  \/ response[w].status_code = 202
                  \/ (store_raised[w] # "none" /\ all_findings[w] # <<>>)

C1_Witness ==
    \E w \in Workers :
        /\ Answered(w)
        /\ checks_requested[w] = Some(<<"public_buckets", "nonexistent_check">>)
        /\ ran[w] = <<"public_buckets">>
        /\ response[w].status_code = 202
        /\ response[w].findings_count = 1

\* the result of a check that met no fault
Unfaulted(w, name) == CheckTable[project_id[w], hashOrder[w], name][NoFault]

FiveChecks == {"public_buckets", "firewall_rules", "default_sa_usage",
               "bucket_logging", "iam_bindings"}

IsPrefix(p, s) == Len(p) <= Len(s) /\ SubSeq(s, 1, Len(p)) = p
IsSuffix(p, s) == Len(p) <= Len(s) /\ SubSeq(s, Len(s) - Len(p) + 1, Len(s)) = p

\* C2 as stated: every selected check is run whatever fails, a check that
\* met no fault contributes all its findings, and a check that met a fault
\* (a listing or client error inside it, or an exception escaping it)
\* contributes no finding.
C2_AsStated ==
    \A w \in Workers :
        Scanned(w) =>
            /\ SeqToSet(ran[w]) = Asked(checks_requested[w])
            /\ all_findings[w] = Flatten(contrib[w])
            /\ \A i \in DOMAIN contrib[w] :
                  LET e == contrib[w][i]
                  IN IF e.fault = NoFault
                     THEN e.findings = Unfaulted(w, e.name).findings
                     ELSE e.findings = <<>>

\* C2, amended: every selected check is run whatever fails and the scan
\* goes on to the store; a check that met no fault contributes all its
\* findings; a check whose exception escapes, and any of the five
\* single-listing checks that met a fault, contributes no finding;
\* check_unused_resources with one listing failing still contributes the
\* findings of its other listing (disk findings first).
C2_FaultTolerance ==
    \A w \in Workers :
        Scanned(w) =>
            /\ SeqToSet(ran[w]) = Asked(checks_requested[w])
            /\ all_findings[w] = Flatten(contrib[w])
            /\ \A i \in DOMAIN contrib[w] :
                  LET e == contrib[w][i]
                      env == World(project_id[w], hashOrder[w])
                  IN /\ e.fault = NoFault =>
                            e.findings = Unfaulted(w, e.name).findings
                     /\ (e.fault # NoFault /\ (e.name \in FiveChecks \/ e.raised # "none"))
                            => e.findings = <<>>
                     /\ (e.name = "unused_resources" /\ e.raised = "none") =>
                            /\ e.fault.list = NoErr =>
                                  IsPrefix(UnusedDisks(project_id[w], env, NoFault),
                                           e.findings)
                            /\ e.fault.list2 = NoErr =>
                                  IsSuffix(UnusedAddresses(project_id[w], env, NoFault),
                                           e.findings)
                            /\ Len(e.findings) <= Len(Unfaulted(w, e.name).findings)

\* a scan in which firewall_rules met a permission error and the checks
\* after it still added their findings
C2_Witness ==
    \E w \in Workers :
        /\ Answered(w)
        /\ response[w].status_code = 202
        /\ Len(ran[w]) = Len(CheckNames)
        /\ \E i \in DOMAIN contrib[w] :
              /\ contrib[w][i].name = "firewall_rules"
              /\ contrib[w][i].fault.list.kind = "Forbidden"
              /\ Unfaulted(w, "firewall_rules").findings # <<>>
              /\ \E j \in DOMAIN contrib[w] : j > i /\ contrib[w][j].findings # <<>>

\* C3: in each of the five single-listing checks, a listing that raises
\* (permission error, provider error or anything else, at once or after
\* some resources) makes the check return the empty list and raise nothing.
C3_CollectionFailure ==
    \A w \in Workers :
        \A i \in DOMAIN contrib[w] :
            LET e == contrib[w][i]
            IN (e.name \in FiveChecks /\ e.fault.list.kind \in ErrKinds) =>
                  (e.findings = <<>> /\ e.raised = "none")

\* a listing that raised after a non-compliant resource had been seen
C3_Witness ==
    \E w \in Workers :
        \E i \in DOMAIN contrib[w] :
            LET e == contrib[w][i]
            IN /\ e.name = "public_buckets"
               /\ project_id[w] = "proj-one"
               /\ e.fault.list = [kind |-> "GoogleCloudError", at |-> 1]
               /\ e.findings = <<>>

RECURSIVE MembersSkippingMalformed(_, _, _)
\* the findings of a binding's members when a member that cannot be
\* evaluated is skipped and the others are still evaluated
MembersSkippingMalformed(pid, role, members) ==
    IF members = <<>> THEN <<>>
    ELSE LET r == IamMemberStep(pid, role, Head(members))
         IN (IF r.raised = "none" THEN r.findings ELSE <<>>)
            \o MembersSkippingMalformed(pid, role, Tail(members))

RECURSIVE BindingsSkippingMalformed(_, _)
BindingsSkippingMalformed(pid, bindings) ==
    IF bindings = <<>> THEN <<>>
    ELSE (IF Head(bindings).role \in primitive_roles
          THEN MembersSkippingMalformed(pid, Head(bindings).role, Head(bindings).members)
          ELSE <<>>)
         \o BindingsSkippingMalformed(pid, Tail(bindings))

\* C4 as stated: in a check whose listing did not fail, a resource whose
\* evaluation raises is skipped alone, and the findings of every other
\* non-compliant resource are returned; for check_iam_bindings these are
\* the findings of all members but the malformed ones.
C4_PerResourceFailure ==
    \A w \in Workers :
        \A i \in DOMAIN contrib[w] :
            LET e == contrib[w][i]
                env == World(project_id[w], hashOrder[w])
                reported == {e.findings[j].resource_id : j \in DOMAIN e.findings}
                buckets == SeqToSet(env.buckets)
            IN e.fault = NoFault =>
                  /\ e.name = "public_buckets" =>
                        reported =
                            {b.name : b \in
                                {c \in buckets :
                                    /\ c.policy_err = "none"
                                    /\ \E k \in DOMAIN c.bindings :
                                           PublicBinding(c.bindings[k])}}
                  /\ e.name = "bucket_logging" =>
                        reported =
                            {b.name : b \in
                                {c \in buckets : c.reload_err = "none" /\ ~c.logging}}
                  /\ e.name = "iam_bindings" =>
                        e.findings =
                            BindingsSkippingMalformed(project_id[w], env.policy_bindings)

\* C5: when add_findings raises, the scan is answered 500 with a detail
\* naming the project, never 202; a scan answered 202 reports as
\* findings_count the length of the aggregate list, and that list is what
\* the store holds under the scan's ids.
C5_StoreFailureFatal ==
    \A w \in Workers :
        Answered(w) =>
            /\ response[w].status_code \in {202, 500}
            /\ store_raised[w] # "none" =>
                  /\ response[w].status_code = 500
                  /\ response[w].detail =
                        "An error occurred during the scan for project "
                            \o project_id[w] \o ": "
            /\ response[w].status_code = 202 =>
                  /\ store_raised[w] = "none"
                  /\ response[w].findings_count = Len(all_findings[w])
                  /\ Cardinality(inserted[w]) = Len(all_findings[w])

C5_Witness ==
    \E w \in Workers :
        /\ Answered(w)
        /\ store_raised[w] = "Exception"
        /\ response[w].status_code = 500
        /\ Len(all_findings[w]) > 1

\* the rows `added` are the findings of the batch, one row each, in order
Persisted(findings, added) ==
    /\ Cardinality(added) = Len(findings)
    /\ added # {} =>
          LET first == SetMin({r.id : r \in added})
          IN \A i \in DOMAIN findings :
                \E r \in added :
                    /\ r.id = first + i - 1
                    /\ r.gcp_project_id = findings[i].gcp_project_id
                    /\ r.resource_type = findings[i].resource_type
                    /\ r.resource_id = findings[i].resource_id
                    /\ r.finding_description = findings[i].finding_description
                    /\ r.status = findings[i].status

\* C6: a call of add_findings with a non-empty batch either persists every
\* finding of the batch and returns, or raises and leaves the table exactly
\* as it was.
C6_AllOrNothing ==
    [][\A w \in Workers :
          (pc[w] = "store" /\ pc'[w] = "idle" /\ all_findings[w] # <<>>) =>
              \/ /\ store_raised'[w] = "none"
                 /\ store \subseteq store'
                 /\ Persisted(all_findings[w], store' \ store)
              \/ /\ store_raised'[w] # "none"
                 /\ store' = store]_vars

\* a write that failed after some INSERTs, on a table that held rows
C6_Witness ==
    \E w \in Workers :
        /\ Answered(w)
        /\ store_raised[w] = "Exception"
        /\ store # {}
        /\ nextId > 1 + SetMax({r.id : r \in store})

RowsOf(ids) == {r \in store : r.id \in ids}

\* C7: when a scan is answered 202 with the same project and the same
\* aggregate list as the successful scan before it, the table holds two
\* disjoint sets of rows, one per scan, each with one row per finding.
C7_NoDeduplication ==
    \A w \in Workers :
        (/\ Answered(w)
         /\ response[w].status_code = 202
         /\ prev.valid
         /\ prev.project_id = project_id[w]
         /\ prev.all_findings = all_findings[w]) =>
            /\ inserted[w] \cap prev.inserted = {}
            /\ Persisted(all_findings[w], RowsOf(inserted[w]))
            /\ Persisted(all_findings[w], RowsOf(prev.inserted))

C7_Witness ==
    \E w \in Workers :
        /\ Answered(w)
        /\ response[w].status_code = 202
        /\ prev.valid
        /\ prev.project_id = project_id[w]
        /\ prev.all_findings = all_findings[w]
        /\ Len(all_findings[w]) > 1
        /\ Cardinality(store) = 2 * Len(all_findings[w])

\* C8: no step removes or changes a stored row, and a step that answers a
\* GET /findings request leaves the table as it is.
C8_AppendOnly ==
    [][/\ store \subseteq store'
       /\ (query'.asked /\ query' # query) => store' = store]_vars

\* rows of an earlier scan still stored after a later scan and a listing
C8_Witness ==
    \E w \in Workers :
        /\ Answered(w)
        /\ prev.valid
        /\ prev.inserted # {}
        /\ inserted[w] # {}
        /\ query.asked
        /\ RowsOf(prev.inserted) # {}

ResourceTypes == {"Bucket", "FirewallRule", "Instance", "Disk", "Address", "IAMBinding"}

\* C9: every finding a check returned in a scan, and every stored row, has
\* non-empty project id, resource id and description, one of the six
\* resource types and status NonCompliant; its project id is that of the
\* scan request that produced it.
C9_FindingShape ==
    /\ \A w \in Workers :
          /\ \A i \in DOMAIN contrib[w] :
                \A j \in DOMAIN contrib[w][i].findings :
                    LET f == contrib[w][i].findings[j]
                    IN /\ f.gcp_project_id # ""
                       /\ f.gcp_project_id = project_id[w]
                       /\ f.resource_type \in ResourceTypes
                       /\ f.resource_id # ""
                       /\ f.finding_description # ""
                       /\ f.status = "NonCompliant"
          /\ all_findings[w] = Flatten(contrib[w])
          /\ \A r \in RowsOf(inserted[w]) : r.gcp_project_id = project_id[w]
    /\ \A r \in RowsOf(prev.inserted) : r.gcp_project_id = prev.project_id
    /\ \A r \in store :
          /\ r.gcp_project_id # ""
          /\ r.resource_type \in ResourceTypes
          /\ r.resource_id # ""
          /\ r.finding_description # ""
          /\ r.status = "NonCompliant"

\* rows of two scans of two projects
C9_Witness ==
    \E w \in Workers :
        /\ Answered(w)
        /\ inserted[w] # {}
        /\ prev.inserted # {}
        /\ prev.project_id # project_id[w]
        /\ \A t \in ResourceTypes : \E r \in store : r.resource_type = t

\* the rows of a listing are in ORDER BY scan_timestamp DESC, id order
Ordered(rows) ==
    \A i, j \in DOMAIN rows :
        i < j =>
            \/ rows[i].scan_timestamp > rows[j].scan_timestamp
            \/ /\ rows[i].scan_timestamp = rows[j].scan_timestamp
               /\ rows[i].id < rows[j].id

\* C10 as stated: an answered listing is ordered by timestamp descending, then id
\* ascending; given a filter it holds exactly the rows of that project,
\* given none it holds all rows.
C10_AsStated ==
    (query.asked /\ query.status_code = 200) =>
        /\ Ordered(query.rows)
        /\ Len(query.rows) = Cardinality(SeqToSet(query.rows))
        /\ SeqToSet(query.rows) =
              IF query.filter.some
              THEN {r \in store : r.gcp_project_id = query.filter.val}
              ELSE store

\* C10, amended: an answered listing is ordered by timestamp descending, then id
\* ascending; given a non-empty filter it holds exactly the rows of that
\* project; given no filter or the empty string it holds all rows.
C10_GetFindings ==
    (query.asked /\ query.status_code = 200) =>
        /\ Ordered(query.rows)
        /\ Len(query.rows) = Cardinality(SeqToSet(query.rows))
        /\ SeqToSet(query.rows) =
              IF query.filter.some /\ query.filter.val # ""
              THEN {r \in store : r.gcp_project_id = query.filter.val}
              ELSE store

\* a filtered listing of several rows, from a table that also holds later
\* rows of another project
C10_Witness ==
    /\ query.asked
    /\ query.status_code = 200
    /\ query.filter = Some("proj-one")
    /\ Len(query.rows) > 1
    /\ \E r \in store :
          /\ r.gcp_project_id = "proj-two"
          /\ r.scan_timestamp > query.rows[1].scan_timestamp

----------------------------------------------------------------------------
(* The checks applied one at a time to drawn provider states.  The initial  *)
(* state draws the resources the provider holds for project "proj-one"      *)
(* (`subject`); the one step of a check reads them and records its return   *)
(* (`verdict`).                                                             *)

MaxAllowed == 2

Protocols == {"tcp", "UDP", "sctp"}

PortLists == {<<"22">>, <<"22", "80">>, <<"80">>, <<"3389">>, <<"20-25">>, <<>>}

\* the entries of rule.allowed
AllowedEntries == [ip_protocol : Protocols, ports : PortLists]

RECURSIVE SeqsUpTo(_, _)
\* the non-empty sequences of at most n elements of S
SeqsUpTo(S, n) ==
    IF n = 0 THEN {}
    ELSE {<<x>> : x \in S}
         \cup {<<x>> \o t : x \in S, t \in SeqsUpTo(S, n - 1)}

SourceRanges == {{"0.0.0.0/0"}, {"10.0.0.0/8"}, {"10.0.0.0/8", "0.0.0.0/0"}}

\* the firewall rules compute_client.list can yield
DrawnFirewallRules ==
    {FirewallRule("rule-a", d, x, r, a) :
        d \in {"INGRESS", "EGRESS"}, x \in BOOLEAN, r \in SourceRanges,
        a \in SeqsUpTo(AllowedEntries, MaxAllowed)}

FirewallSubjects ==
    {[check |-> "firewall_rules", firewalls |-> <<rule>>] :
        rule \in DrawnFirewallRules}

ScanProject == "proj-one"

\* the process that calls the check
RuleProcess == "w1"

\* check_firewall_rules(project_id) on the drawn rules
ApplyFirewallRules ==
    /\ subject.check = "firewall_rules"
    /\ verdict = NoVerdict
    /\ verdict' = [check |-> "firewall_rules"]
                  @@ check_firewall_rules(
                         ScanProject,
                         [firewalls |-> subject.firewalls,
                          hash_order |-> hashOrder[RuleProcess]],
                         NoFault)
    /\ UNCHANGED <<hashOrder, store, nextId, clock, faults, scans, pc,
                   project_id, checks_requested, ran, contrib, all_findings,
                   inserted, store_raised, response, prev, query, overlapped,
                   subject>>

MaxMembers == 2

\* members of a project policy binding
DrawnMembers ==
    {"user:bob@example.com",
     "group:admins@example.com",
     "serviceAccount:123-compute@developer.gserviceaccount.com",
     "serviceAccount:123@cloudbuild.gserviceaccount.com",
     "serviceAccount:service-123@gcp-sa-pubsub.iam.gserviceaccount.com",
     "serviceAccount:cloud-ml-service@my-proj-1a2b.iam.gserviceaccount.com",
     "serviceAccount:my-app@my-proj.iam.gserviceaccount.com"}

DrawnRoles == {"roles/owner", "roles/viewer", "roles/storage.admin"}

\* a binding lists a member once
DrawnBindings ==
    {[role |-> r, members |-> m] :
        r \in DrawnRoles,
        m \in {l \in SeqsUpTo(DrawnMembers, MaxMembers) : NoDuplicates(l)}}

\* the policies crm_client.get_iam_policy can return: one binding, or two
\* bindings of different roles with one member each
DrawnPolicies ==
    {<<b>> : b \in DrawnBindings}
    \cup {p \in {<<b, c>> : b, c \in {d \in DrawnBindings : Len(d.members) = 1}} :
             p[1].role # p[2].role}

IamSubjects ==
    {[check |-> "iam_bindings", policy_bindings |-> p] : p \in DrawnPolicies}

\* check_iam_bindings(project_id) on the drawn policy
ApplyIamBindings ==
    /\ subject.check = "iam_bindings"
    /\ verdict = NoVerdict
    /\ verdict' = [check |-> "iam_bindings"]
                  @@ check_iam_bindings(
                         ScanProject,
                         [policy_bindings |-> subject.policy_bindings],
                         NoFault)
    /\ UNCHANGED <<hashOrder, store, nextId, clock, faults, scans, pc,
                   project_id, checks_requested, ran, contrib, all_findings,
                   inserted, store_raised, response, prev, query, overlapped,
                   subject>>

MaxBucketBindings == 2

BucketRoles == {"roles/storage.objectViewer", "roles/storage.legacyObjectReader",
                "roles/storage.objectAdmin"}

BucketMembers == {{"allUsers"}, {"allAuthenticatedUsers"},
                  {"user:alice@example.com"},
                  {"user:alice@example.com", "allUsers"}}

\* the bindings lists bucket.get_iam_policy can return
DrawnBucketPolicies ==
    {<<>>} \cup SeqsUpTo([role : BucketRoles, members : BucketMembers],
                         MaxBucketBindings)

\* the buckets storage_client.list_buckets can yield: a bucket whose policy
\* can be read, after one whose policy cannot
BucketSubjects ==
    {[check |-> "public_buckets",
      buckets |-> <<Bucket("bucket-a", e, <<>>, "none", TRUE),
                    Bucket("bucket-b", "none", b, "none", TRUE)>>] :
        e \in {"Forbidden", "none"}, b \in DrawnBucketPolicies}

\* check_public_buckets(project_id) on the drawn buckets
ApplyPublicBuckets ==
    /\ subject.check = "public_buckets"
    /\ verdict = NoVerdict
    /\ verdict' = [check |-> "public_buckets"]
                  @@ check_public_buckets(ScanProject,
                                          [buckets |-> subject.buckets], NoFault)
    /\ UNCHANGED <<hashOrder, store, nextId, clock, faults, scans, pc,
                   project_id, checks_requested, ran, contrib, all_findings,
                   inserted, store_raised, response, prev, query, overlapped,
                   subject>>

Users == {<<>>, <<"vm-1">>}

\* aggregated_list of disks: two zones, one disk each
DrawnDisks ==
    {<<<<"zones/us-central1-a", [disks |-> <<[name |-> "disk-a", users |-> u]>>]>>,
       <<"zones/us-central1-b", [disks |-> <<[name |-> "disk-b", users |-> v]>>]>>>> :
        u \in Users, v \in Users}

Addresses ==
    [name : {"ip"}, address_type : {"EXTERNAL", "INTERNAL"},
     status : {"RESERVED", "IN_USE"}, users : Users]

\* aggregated_list of addresses: two regions, one address each
DrawnAddresses ==
    {<<<<"regions/us-central1", [addresses |-> <<a>>]>>,
       <<"regions/us-east1", [addresses |-> <<b>>]>>>> :
        a \in Addresses, b \in Addresses}

\* how a listing of two pages can go: it yields both, or raises after
\* having yielded none or one
ListingFaults ==
    {NoErr} \cup [kind : {"Forbidden", "Exception"}, at : 0..1]

UnusedSubjects ==
    {[check |-> "unused_resources", disks |-> d, addresses |-> a,
      fault |-> [client |-> "none", list |-> f, list2 |-> g]] :
        d \in DrawnDisks, a \in DrawnAddresses,
        f \in ListingFaults, g \in ListingFaults}

\* check_unused_resources(project_id) on the drawn listings
ApplyUnusedResources ==
    /\ subject.check = "unused_resources"
    /\ verdict = NoVerdict
    /\ verdict' = [check |-> "unused_resources"]
                  @@ check_unused_resources(
                         ScanProject,
                         [disks |-> subject.disks, addresses |-> subject.addresses],
                         subject.fault)
    /\ UNCHANGED <<hashOrder, store, nextId, clock, faults, scans, pc,
                   project_id, checks_requested, ran, contrib, all_findings,
                   inserted, store_raised, response, prev, query, overlapped,
                   subject>>

\* listings of two rules
FirewallPairSubjects ==
    {[check |-> "firewall_rules",
      firewalls |-> <<r, [q EXCEPT !.name = "rule-b"]>>] :
        r, q \in {d \in DrawnFirewallRules :
                     /\ d.direction = "INGRESS"
                     /\ d.source_ranges = {"0.0.0.0/0"}
                     /\ Len(d.allowed) = 1
                     /\ d.allowed[1].ip_protocol = "tcp"}}

\* the orders in which check_functions could hold its six entries
RegistryOrders ==
    {p \in [1..Len(CheckNames) -> Registry] :
        \A i, j \in 1..Len(CheckNames) : i # j => p[i] # p[j]}

\* scans in which no check, or one check, meets a permission error
OrderFaults ==
    {NoFaults}
    \cup {[NoFaults EXCEPT ![n] = [NoFault EXCEPT !.list = [kind |-> "Forbidden", at |-> 0]]] :
             n \in Registry}

OrderSubjects ==
    {[check |-> "check_order", names |-> n, pid |-> p, req |-> r, fv |-> f] :
        n \in RegistryOrders, p \in {"proj-one", "proj-two"},
        r \in {NoList, Some(<<"iam_bindings", "unused_resources", "iam_bindings">>)},
        f \in OrderFaults}

RECURSIVE CheckLoopInOrder(_, _, _, _, _)
\* the loop of trigger_scan over check_functions.items() when the dict
\* holds its entries in the order `names`
CheckLoopInOrder(names, pid, order, opt, fv) ==
    IF names = <<>> THEN <<>>
    ELSE LET name == Head(names)
             fault == IF pid = "" THEN Rejected ELSE fv[name]
             result == CheckTable[pid, order, name][fault]
         IN (IF Selected(name, opt)
             THEN <<[name |-> name, fault |-> fault, raised |-> result.raised,
                     findings |-> Extend(result)]>>
             ELSE <<>>)
            \o CheckLoopInOrder(Tail(names), pid, order, opt, fv)

\* the checks of one scan, run in the drawn order
ApplyCheckOrder ==
    /\ subject.check = "check_order"
    /\ verdict = NoVerdict
    /\ LET entries == CheckLoopInOrder(subject.names, subject.pid, hashOrder[RuleProcess],
                                       subject.req, subject.fv)
       IN verdict' = [check |-> "check_order", entries |-> entries,
                      findings |-> Flatten(entries), raised |-> "none"]
    /\ UNCHANGED <<hashOrder, store, nextId, clock, faults, scans, pc,
                   project_id, checks_requested, ran, contrib, all_findings,
                   inserted, store_raised, response, prev, query, overlapped,
                   subject>>

Subjects ==
    FirewallSubjects \cup FirewallPairSubjects \cup IamSubjects
    \cup BucketSubjects \cup UnusedSubjects \cup OrderSubjects

RuleInit ==
    /\ ServerInit({RuleProcess})
    /\ subject \in Subjects
    /\ verdict = NoVerdict

RuleNext ==
    \/ ApplyFirewallRules
    \/ ApplyIamBindings
    \/ ApplyPublicBuckets
    \/ ApplyUnusedResources
    \/ ApplyCheckOrder

RuleSpec == RuleInit /\ [][RuleNext]_vars

----------------------------------------------------------------------------
(* Properties of the single checks.                                         *)

RECURSIVE ToNat(_)
\* the number a string of decimal digits denotes
ToNat(s) ==
    IF Len(s) = 0 THEN 0
    ELSE 10 * ToNat(SubSeq(s, 1, Len(s) - 1))
         + (SetMin(Positions(Digits, SubSeq(s, Len(s), Len(s)))) - 1)

\* a ports entry of a firewall rule, "p" or "lo-hi", covers port n
PortSpecCovers(spec, n) ==
    IF Positions(spec, "-") = {} THEN ToNat(spec) = n
    ELSE LET i == SetMin(Positions(spec, "-"))
         IN /\ ToNat(SubSeq(spec, 1, i - 1)) <= n
            /\ n <= ToNat(SubSeq(spec, i + 1, Len(spec)))

\* an allow-entry permits port n: it lists no port (every port), or one of
\* its entries covers n
Permits(allowed, n) ==
    \/ allowed.ports = <<>>
    \/ \E i \in DOMAIN allowed.ports : PortSpecCovers(allowed.ports[i], n)

\* the rule is enabled, ingress, open to 0.0.0.0/0 and permits TCP or UDP
\* on port 22 or 3389
Exposed(rule) ==
    /\ rule.direction = "INGRESS"
    /\ ~rule.disabled
    /\ "0.0.0.0/0" \in rule.source_ranges
    /\ \E i \in DOMAIN rule.allowed :
          /\ Lower(rule.allowed[i].ip_protocol) \in {"tcp", "udp"}
          /\ (Permits(rule.allowed[i], 22) \/ Permits(rule.allowed[i], 3389))

FindingsFor(findings, rid) == {i \in DOMAIN findings : findings[i].resource_id = rid}

\* C11 as stated: check_firewall_rules returns one finding for a rule that
\* is enabled, ingress, open to 0.0.0.0/0 and permits TCP or UDP on port 22
\* or 3389, and no finding for any other rule.
C11_FirewallClassification ==
    verdict.check = "firewall_rules" =>
        /\ verdict.raised = "none"
        /\ \A i \in DOMAIN subject.firewalls :
              LET rule == subject.firewalls[i]
              IN Cardinality(FindingsFor(verdict.findings, rule.name))
                     = IF Exposed(rule) THEN 1 ELSE 0

Contains(s, p) == \E i \in 1..(Len(s) - Len(p) + 1) : SubSeq(s, i, i + Len(p) - 1) = p

\* the sensitive ports the rule's TCP/UDP allow-entries list
ListedSensitive(rule) ==
    {p \in ports_to_check :
        \E i \in DOMAIN rule.allowed :
            /\ Lower(rule.allowed[i].ip_protocol) \in {"tcp", "udp"}
            /\ p \in SeqToSet(rule.allowed[i].ports)}

\* C12 as stated: the finding of a rule names in its description every
\* sensitive port that any TCP/UDP allow-entry of the rule lists, and no
\* other port.
C12_FirewallDescription ==
    verdict.check = "firewall_rules" =>
        \A i \in DOMAIN subject.firewalls :
            LET rule == subject.firewalls[i]
            IN \A j \in FindingsFor(verdict.findings, rule.name) :
                  LET desc == verdict.findings[j].finding_description
                      ports == SubSeq(desc, Len("Rule allows ingress from 0.0.0.0/0 on sensitive ports: ") + 1, Len(desc))
                  IN /\ \A p \in ports_to_check :
                            Contains(ports, p) <=> p \in ListedSensitive(rule)
                     /\ ~Contains(ports, "80")
                     /\ ~Contains(ports, "20-25")

\* s is one or more decimal digits followed by rest
DigitsThen(s, rest) ==
    /\ LeadingDigits(s) >= 1
    /\ SubSeq(s, LeadingDigits(s) + 1, Len(s)) = rest

\* the named platform agent accounts
PlatformAgents ==
    {"gae-api-proxy", "cloud-ml-service", "container-engine-robot",
     "dataproc-agent", "sourcerepo-service-agent", "cloud-filer-agent",
     "cloud-tasks-producer", "cloud-tasks-appengine-requester",
     "cloudscheduler-service-agent", "endpoints-service-agent",
     "remotebuildexecution-agent", "secretmanager-service-agent",
     "stackdriver-service-agent", "storage-transfer-service-agent",
     "websecurityscanner-service-agent"}

\* the service account is a project-number compute or cloudbuild account, a
\* service-<n>@gcp-sa-* account or a named platform agent account
AllowListed(email) ==
    \/ DigitsThen(email, "-compute@developer.gserviceaccount.com")
    \/ DigitsThen(email, "@cloudbuild.gserviceaccount.com")
    \/ /\ StartsWith(email, "service-")
       /\ LET rest == SubSeq(email, Len("service-") + 1, Len(email))
          IN /\ LeadingDigits(rest) >= 1
             /\ StartsWith(SubSeq(rest, LeadingDigits(rest) + 1, Len(rest)), "@gcp-sa-")
       /\ EndsWith(email, ".gserviceaccount.com")
    \/ \E a \in PlatformAgents :
          /\ StartsWith(email, a \o "@")
          /\ EndsWith(email, ".gserviceaccount.com")

\* the member is a user, or a service account off the allow-list
Flaggable(member) ==
    \/ StartsWith(member, "user:")
    \/ /\ StartsWith(member, "serviceAccount:")
       /\ ~AllowListed(SubSeq(member, Len("serviceAccount:") + 1, Len(member)))

\* C13 as stated: check_iam_bindings returns one finding per (binding,
\* member) pair whose role is roles/owner, roles/editor or roles/viewer and
\* whose member is a user or a service account off the allow-list, and no
\* other finding.
C13_PrimitiveRoles ==
    verdict.check = "iam_bindings" =>
        /\ verdict.raised = "none"
        /\ \A m \in DrawnMembers :
              Cardinality(FindingsFor(verdict.findings, m))
                  = Cardinality({b \in DOMAIN subject.policy_bindings :
                                    /\ subject.policy_bindings[b].role
                                           \in {"roles/owner", "roles/editor", "roles/viewer"}
                                    /\ m \in SeqToSet(subject.policy_bindings[b].members)
                                    /\ Flaggable(m)})
        /\ \A i \in DOMAIN verdict.findings :
              verdict.findings[i].resource_id \in DrawnMembers

\* the bucket grants object viewing to everyone
GrantsPublicRead(bucket) ==
    \E i \in DOMAIN bucket.bindings :
        /\ bucket.bindings[i].role \in {"roles/storage.objectViewer",
                                        "roles/storage.legacyObjectReader"}
        /\ bucket.bindings[i].members \cap {"allUsers", "allAuthenticatedUsers"} # {}

\* C14: check_public_buckets returns exactly one finding for a bucket whose
\* policy it could read and which has at least one binding of
\* storage.objectViewer or storage.legacyObjectReader to allUsers or
\* allAuthenticatedUsers, however many such bindings there are, and no
\* finding for any other bucket.
C14_PublicBuckets ==
    verdict.check = "public_buckets" =>
        /\ verdict.raised = "none"
        /\ \A i \in DOMAIN subject.buckets :
              LET bucket == subject.buckets[i]
              IN Cardinality(FindingsFor(verdict.findings, bucket.name))
                     = IF bucket.policy_err = "none" /\ GrantsPublicRead(bucket)
                       THEN 1 ELSE 0
        /\ \A j \in DOMAIN verdict.findings :
              /\ verdict.findings[j].resource_type = "Bucket"
              /\ \E i \in DOMAIN subject.buckets :
                    subject.buckets[i].name = verdict.findings[j].resource_id

\* a bucket with two public bindings, reported once
C14_Witness ==
    /\ verdict.check = "public_buckets"
    /\ Len(verdict.findings) = 1
    /\ LET b == subject.buckets[2].bindings
       IN /\ Len(b) = 2
          /\ b[1].role = "roles/storage.objectViewer" /\ "allUsers" \in b[1].members
          /\ b[2].role = "roles/storage.legacyObjectReader"
          /\ "allAuthenticatedUsers" \in b[2].members

\* the pages a listing yielded before it raised
Pages(listing, f) ==
    IF f.kind = "none" THEN listing
    ELSE SubSeq(listing, 1, IF f.at < Len(listing) THEN f.at ELSE Len(listing))

\* the ids the check reports for the unattached disks of the pages
UnattachedDisks(pages) ==
    LET keep == SelectSeq(pages, LAMBDA z : z[2].disks[1].users = <<>>)
    IN [i \in DOMAIN keep |->
           <<"Disk", LastSegment(keep[i][1]) \o "/" \o keep[i][2].disks[1].name>>]

\* the ids the check reports for the reserved, unused external addresses
UnusedExternal(pages) ==
    LET keep == SelectSeq(pages,
                          LAMBDA z : /\ z[2].addresses[1].address_type = "EXTERNAL"
                                     /\ z[2].addresses[1].status = "RESERVED"
                                     /\ z[2].addresses[1].users = <<>>)
    IN [i \in DOMAIN keep |->
           <<"Address", LastSegment(keep[i][1]) \o "/" \o keep[i][2].addresses[1].name>>]

\* C15: check_unused_resources returns the findings of the unattached disks
\* it was given followed by those of the reserved, unused external
\* addresses it was given; a disk listing that raises leaves the address
\* findings in place, and an address listing that raises leaves the disk
\* findings in place.
C15_UnusedIndependence ==
    verdict.check = "unused_resources" =>
        /\ verdict.raised = "none"
        /\ [i \in DOMAIN verdict.findings |->
               <<verdict.findings[i].resource_type, verdict.findings[i].resource_id>>]
              = UnattachedDisks(Pages(subject.disks, subject.fault.list))
                    \o UnusedExternal(Pages(subject.addresses, subject.fault.list2))

\* the disk listing raised at once, and both unused addresses are reported
C15_Witness ==
    /\ verdict.check = "unused_resources"
    /\ subject.fault.list = [kind |-> "Forbidden", at |-> 0]
    /\ subject.fault.list2 = NoErr
    /\ \A i \in 1..2 : subject.disks[i][2].disks[1].users = <<>>
    /\ Len(verdict.findings) = 2
    /\ \A i \in 1..2 : verdict.findings[i].resource_type = "Address"

Count(s, x) == Cardinality({i \in DOMAIN s : s[i] = x})

\* the two lists hold the same findings the same number of times
SameBag(s, t) ==
    /\ Len(s) = Len(t)
    /\ \A x \in SeqToSet(s) \cup SeqToSet(t) : Count(s, x) = Count(t, x)

FaultsOf(w) ==
    [n \in Registry |->
        IF \E i \in DOMAIN contrib[w] : contrib[w][i].name = n
        THEN contrib[w][CHOOSE i \in DOMAIN contrib[w] : contrib[w][i].name = n].fault
        ELSE NoFault]

SameContent(r, f) ==
    /\ r.gcp_project_id = f.gcp_project_id
    /\ r.resource_type = f.resource_type
    /\ r.resource_id = f.resource_id
    /\ r.finding_description = f.finding_description
    /\ r.status = f.status

\* C17: with two processes scanning at once, the aggregate list of each
\* scan is what its own checks return for its own project and request, as
\* in a scan running alone; a scan whose store write did not fail is
\* answered 202 with the length of that list, and its batch, one row per
\* finding and all of its own project, is in the table whatever happened
\* to the other scan's write.
C17_ScanIndependence ==
    \A w \in Processes :
        Scanned(w) =>
            /\ all_findings[w] =
                  Flatten(CheckLoop(1, project_id[w], hashOrder[w],
                                    checks_requested[w], FaultsOf(w)))
            /\ \A i \in DOMAIN all_findings[w] :
                  all_findings[w][i].gcp_project_id = project_id[w]
            /\ (Answered(w) /\ store_raised[w] = "none") =>
                  /\ response[w].status_code = 202
                  /\ response[w].findings_count = Len(all_findings[w])
                  /\ Cardinality(RowsOf(inserted[w])) = Len(all_findings[w])
                  /\ \A r \in RowsOf(inserted[w]) :
                        /\ r.gcp_project_id = project_id[w]
                        /\ \E i \in DOMAIN all_findings[w] :
                              SameContent(r, all_findings[w][i])
                  /\ \A i \in DOMAIN all_findings[w] :
                        \E r \in RowsOf(inserted[w]) : SameContent(r, all_findings[w][i])
                  /\ \A v \in Processes \ {w} : inserted[w] \cap inserted[v] = {}

\* two scans of different projects in flight at once; the write of the one
\* failed and the batch of the other is stored
C17_Witness ==
    \E w, v \in Processes :
        /\ w # v
        /\ Answered(w) /\ Answered(v)
        /\ project_id[w] = "proj-one" /\ project_id[v] = "proj-two"
        /\ overlapped[v] = {w}
        /\ store_raised[w] = "Exception"
        /\ response[w].status_code = 500
        /\ response[v].status_code = 202
        /\ Cardinality(RowsOf(inserted[v])) > 1
        /\ hashOrder[w] # hashOrder[v]

\* what the loop of a check had appended to `findings` when it ended, and
\* the exception that ended it
LoopOutcome(name, pid, env, fault) ==
    CASE name = "public_buckets" ->
            [findings |-> PublicBucketsLoop(pid, Yielded(env.buckets, fault.list)),
             raised |-> ListingError(fault.list)]
      [] name = "firewall_rules" ->
            [findings |-> FirewallLoop(pid, Yielded(env.firewalls, fault.list),
                                       env.hash_order),
             raised |-> ListingError(fault.list)]
      [] name = "default_sa_usage" ->
            [findings |-> DefaultSaLoop(pid, Yielded(env.instances, fault.list)),
             raised |-> ListingError(fault.list)]
      [] name = "bucket_logging" ->
            [findings |-> BucketLoggingLoop(pid, Yielded(env.buckets, fault.list)),
             raised |-> ListingError(fault.list)]
      [] name = "iam_bindings" ->
            IF ListingError(fault.list) # "none"
            THEN [findings |-> <<>>, raised |-> ListingError(fault.list)]
            ELSE IamBindingsLoop(pid, env.policy_bindings)

\* C18: in the five single-listing checks, when the listing raises after
\* having yielded resources, or the loop raises outside a per-resource
\* handler, the check returns the empty list and not the findings it had
\* appended until then.
C18_PartialDiscarded ==
    \A w \in Workers :
        \A i \in DOMAIN contrib[w] :
            LET e == contrib[w][i]
                loop == LoopOutcome(e.name, project_id[w],
                                    World(project_id[w], hashOrder[w]), e.fault)
            IN (/\ e.name \in FiveChecks
                /\ ClientError(e.fault) = "none"
                /\ loop.raised # "none"
                /\ loop.findings # <<>>) =>
                   (e.findings = <<>> /\ e.raised = "none")

\* the firewall listing raised after it had yielded a rule the check had
\* reported
C18_Witness ==
    \E w \in Workers :
        \E i \in DOMAIN contrib[w] :
            LET e == contrib[w][i]
            IN /\ e.name = "firewall_rules"
               /\ project_id[w] = "proj-one"
               /\ e.fault.list = [kind |-> "GoogleCloudError", at |-> 1]
               /\ FirewallLoop(project_id[w],
                               Yielded(ProjectOne.firewalls, e.fault.list),
                               hashOrder[w]) # <<>>
               /\ e.findings = <<>>
               /\ Answered(w)
               /\ response[w].status_code = 202

====
